---- MODULE Spec2Model ----
(***************************************************************************)
(* Model of the ResearchAgent tool-dispatch loop (src/Agent.py), its CLI   *)
(* caller (src/main.py) and the paper-source adapters (src/utils.py).      *)
(*                                                                         *)
(* The graph of src/Agent.py is START -> agent -> (tools -> agent)* -> END *)
(* over the state schema AgentState, whose only key `messages` is declared *)
(* as a plain List with no reducer.  A key without a reducer is a          *)
(* last-value channel: whatever a node (or the input of agent.invoke)      *)
(* writes to it REPLACES the stored value.  call_model returns             *)
(* messages + [response]; ToolNode returns only its ToolMessages; the      *)
(* input of agent.invoke is [HumanMessage].                                *)
(***************************************************************************)
EXTENDS Integers, Sequences, FiniteSets, TLC

\* ---------------------------------------------------------------- bounds
MaxTurns == 2          \* turns (agent.invoke calls) explored
MaxCalls == 2          \* tool-call requests in one model output

\* ------------------------------------------------------ program constants
\* agent.invoke is called without "recursion_limit" in its config, so the
\* graph runs under the library default of 25 super-steps.
RecursionLimit == 25

MainThreadIds == {"1"}                 \* config of main(): thread_id "1"
ThreadIds == {"1", "2"}                \* thread_ids given to agent.invoke
UserTexts == {<<"find papers">>, <<"more">>}   \* input() texts of main()

\* utils.tools: the list given to ToolNode (the Acting step's registry)
tools == {"search_arxiv", "search_pubmed", "search_semantic_scholar",
          "search_google_scholar"}
\* Agent.search: TavilySearch, whose tool name is tavily_search
search == "tavily_search"
\* the list bound to the model in call_model: tools + [search]
bound_tools == tools \cup {search}

\* names the model is made to request: one registered adapter and the
\* declared web-search tool
RequestNames == {"search_arxiv", search}
\* contents are sequences of text fragments; <<>> is the empty string
ModelTexts == {<<"[{title: t}]">>, <<>>}

NoId == <<>>
FallbackText == <<"The current date and time is: ", "<now>">>
WrapperText == <<"Interpret this Tool result in proper format to the user: ">>

\* ----------------------------------------------------------- messages
HumanMessage(c) ==
    [type |-> "human", content |-> c, tool_calls |-> <<>>, tool_call_id |-> NoId]
AIMessage(c, calls) ==
    [type |-> "ai", content |-> c, tool_calls |-> calls, tool_call_id |-> NoId]
ToolMessage(c, id) ==
    [type |-> "tool", content |-> c, tool_calls |-> <<>>, tool_call_id |-> id]
SystemMessage(c) ==
    [type |-> "system", content |-> c, tool_calls |-> <<>>, tool_call_id |-> NoId]

system_msg == SystemMessage(<<"research agent instructions">>)

VARIABLES
    memory,      \* MemorySaver: thread_id -> checkpointed state["messages"]
    pc,          \* "idle" | "agent" | "tools": the node about to run
    step,        \* index of the super-step about to run in this invoke
    turn,        \* number of agent.invoke calls made
    thread,      \* thread_id of the current / last invoke
    run,         \* ToolNode: per tool call, its execution status
    modelInput,  \* thread_id -> processed_messages of its last model invocation
    invokeErr,   \* whether the last model_with_tools.invoke raised
    status,      \* outcome of the last invoke: "none" | "returned" | "raised"
    answer,      \* result['messages'][-1].content of the last returned invoke
    \* one call of a paper-source adapter (src/utils.py)
    a_tool,      \* the adapter called
    a_query,     \* its query argument
    a_max,       \* its max_results argument
    a_pc,        \* "idle" | "wait" (inside requests.get) | "returned" | "blocked"
    a_reqs,      \* the HTTP requests issued so far, in order
    a_out,       \* the returned string, by kind
    a_ids,       \* search_pubmed: the idlist of the esearch reply
    a_replies,   \* what the provider (or library) did with each request
    \* the record an adapter builds from one provider record
    r_tool,      \* the adapter
    r_paper,     \* the provider's record
    r_res,       \* the outcome: the PaperRecord built, a drop, a failed call
    \* main(): the handling of one returned answer
    c_content,   \* result['messages'][-1].content
    c_res        \* the branch taken and the content left

lvars == <<memory, pc, step, turn, thread, run, modelInput, invokeErr, status, answer>>
avars == <<a_tool, a_query, a_max, a_pc, a_reqs, a_out, a_ids, a_replies>>
rvars == <<r_tool, r_paper, r_res>>
cvars == <<c_content, c_res>>
vars == <<memory, pc, step, turn, thread, run, modelInput, invokeErr, status, answer,
          a_tool, a_query, a_max, a_pc, a_reqs, a_out, a_ids, a_replies,
          r_tool, r_paper, r_res, c_content, c_res>>

Last(s) == s[Len(s)]
IsPrefix(s, t) == Len(s) <= Len(t) /\ SubSeq(t, 1, Len(s)) = s

\* ------------------------------------------------------------ call_model
\* variant: the history is passed to the model as it is stored
processed_messages_raw(messages) == <<system_msg>> \o messages

\* the list shown to the model
processed_messages(messages) ==
    <<system_msg>> \o
    [i \in 1..Len(messages) |->
        IF messages[i].type = "tool"
        THEN HumanMessage(WrapperText \o messages[i].content)
        ELSE messages[i]]

\* the returned state for a model reply / a raised invocation
call_model(messages, raised, response) ==
    IF raised
    THEN messages \o <<AIMessage(FallbackText, <<>>)>>
    ELSE messages \o <<response>>

\* variant: the conditional edge always routes to the tools node
should_continue_always(messages) == "tools"

should_continue(messages) ==
    IF Len(Last(messages).tool_calls) > 0 THEN "tools" ELSE "__end__"

\* what the model may reply: a final text, or 1..MaxCalls tool-call requests
\* with fresh call identifiers
CallId(t, s, j) == <<t, s, j>>
CallLists(t, s) ==
    UNION { { [j \in 1..n |-> [name |-> names[j], id |-> CallId(t, s, j)]] :
                names \in [1..n -> RequestNames] } : n \in 1..MaxCalls }
Responses(t, s) ==
    { AIMessage(c, <<>>) : c \in ModelTexts } \cup
    { AIMessage(<<>>, calls) : calls \in CallLists(t, s) }

\* ----------------------------------------------------- the graph runner
\* End of a super-step of agent.invoke: the writes of the step are already
\* checkpointed; the step budget is tested before the next node is looked
\* up, so a run that has used RecursionLimit super-steps raises
\* GraphRecursionError whether or not a node is left to run.
AfterTick(next, messages) ==
    IF step + 1 > RecursionLimit
    THEN /\ pc' = "idle"
         /\ status' = "raised"
         /\ UNCHANGED <<step, answer>>
    ELSE IF next = "__end__"
    THEN /\ pc' = "idle"
         /\ status' = "returned"
         /\ answer' = Last(messages).content
         /\ UNCHANGED step
    ELSE /\ pc' = next
         /\ step' = step + 1
         /\ UNCHANGED <<status, answer>>

\* main(): agent.invoke({"messages": [HumanMessage(input_text)]}, config).
\* The input is written to the `messages` channel of the thread's
\* checkpoint; the channel has no reducer, so the write replaces its value.
InputWrite(stored, input) == input

\* variant: one history shared by all thread_ids
Invoke_shared(t, text) ==
    /\ pc = "idle"
    /\ turn < MaxTurns
    /\ memory' = [u \in ThreadIds |-> InputWrite(memory[u], <<HumanMessage(text)>>)]
    /\ pc' = "agent"
    /\ step' = 1
    /\ turn' = turn + 1
    /\ thread' = t
    /\ status' = "none"
    /\ answer' = <<>>
    /\ invokeErr' = FALSE
    /\ UNCHANGED <<run, modelInput>>
    /\ UNCHANGED <<avars, rvars, cvars>>

Invoke(t, text) ==
    /\ pc = "idle"
    /\ turn < MaxTurns
    /\ memory' = [memory EXCEPT ![t] = InputWrite(@, <<HumanMessage(text)>>)]
    /\ pc' = "agent"
    /\ step' = 1
    /\ turn' = turn + 1
    /\ thread' = t
    /\ status' = "none"
    /\ answer' = <<>>
    /\ invokeErr' = FALSE
    /\ UNCHANGED <<run, modelInput>>
    /\ UNCHANGED <<avars, rvars, cvars>>

\* node "agent" followed by the conditional edge should_continue
PendingRuns(calls) ==
    [j \in 1..Len(calls) |-> [st |-> "pending", ran |-> FALSE, exc |-> FALSE, out |-> <<>>]]

CallModelFrom(responses) ==
    /\ pc = "agent"
    /\ \E raised \in BOOLEAN, response \in responses :
         LET messages == memory[thread]
             new == call_model(messages, raised, response)
             next == should_continue(new)
         IN /\ modelInput' = [modelInput EXCEPT ![thread] = processed_messages(messages)]
            /\ invokeErr' = raised
            /\ memory' = [memory EXCEPT ![thread] = new]
            /\ AfterTick(next, new)
            /\ run' = IF pc' = "tools" THEN PendingRuns(Last(new).tool_calls) ELSE <<>>
    /\ UNCHANGED <<turn, thread>>
    /\ UNCHANGED <<avars, rvars, cvars>>

CallModel == CallModelFrom(Responses(turn, step))

\* ------------------------------------------------- node "tools": ToolNode
\* ToolNode(tools) takes the tool calls of the last message and maps them
\* over a thread pool; each call is validated against the names of `tools`,
\* then invoked; an exception of the invocation is turned into an error
\* ToolMessage; the outputs are collected in the order of the calls.
PendingCalls == Last(memory[thread]).tool_calls
InvalidToolText(name) == <<"Error: ", name, " is not a valid tool, try one of [...]">>
ToolErrorText == <<"Error: ", "ValidationError", " Please fix your mistakes.">>
ToolResultText(name) == <<"papers from ", name>>
IsErrorText(c) == Len(c) > 0 /\ c[1] = "Error: "

ToolReject(i) ==
    /\ pc = "tools"
    /\ i \in 1..Len(run)
    /\ run[i].st = "pending"
    /\ PendingCalls[i].name \notin tools
    /\ run' = [run EXCEPT ![i] = [st |-> "done", ran |-> FALSE, exc |-> FALSE,
                                  out |-> InvalidToolText(PendingCalls[i].name)]]
    /\ UNCHANGED <<memory, pc, step, turn, thread, modelInput, invokeErr, status, answer>>
    /\ UNCHANGED <<avars, rvars, cvars>>

ToolStart(i) ==
    /\ pc = "tools"
    /\ i \in 1..Len(run)
    /\ run[i].st = "pending"
    /\ PendingCalls[i].name \in tools
    /\ run' = [run EXCEPT ![i].st = "running", ![i].ran = TRUE]
    /\ UNCHANGED <<memory, pc, step, turn, thread, modelInput, invokeErr, status, answer>>
    /\ UNCHANGED <<avars, rvars, cvars>>

ToolFinish(i) ==
    /\ pc = "tools"
    /\ i \in 1..Len(run)
    /\ run[i].st = "running"
    /\ \E raised \in BOOLEAN :
         run' = [run EXCEPT ![i].st = "done", ![i].exc = raised,
                            ![i].out = IF raised THEN ToolErrorText
                                       ELSE ToolResultText(PendingCalls[i].name)]
    /\ UNCHANGED <<memory, pc, step, turn, thread, modelInput, invokeErr, status, answer>>
    /\ UNCHANGED <<avars, rvars, cvars>>

\* variant: failed calls produce no message
ToolOutputs_dropFailed(calls, runs) ==
    SelectSeq([j \in 1..Len(calls) |-> ToolMessage(runs[j].out, calls[j].id)],
              LAMBDA m : ~IsErrorText(m.content))
\* variant: the outputs are collected last call first
ToolOutputs_reversed(calls, runs) ==
    [j \in 1..Len(calls) |->
        ToolMessage(runs[Len(calls) + 1 - j].out, calls[Len(calls) + 1 - j].id)]

\* the value ToolNode returns for the `messages` key, and its write to the
\* channel (no reducer: the write replaces the stored list)
ToolOutputs(calls, runs) ==
    [j \in 1..Len(calls) |-> ToolMessage(runs[j].out, calls[j].id)]
ToolWrite(stored, outputs) == outputs

ToolsJoin ==
    /\ pc = "tools"
    /\ \A i \in 1..Len(run) : run[i].st = "done"
    /\ LET new == ToolWrite(memory[thread], ToolOutputs(PendingCalls, run))
       IN /\ memory' = [memory EXCEPT ![thread] = new]
          /\ AfterTick("agent", new)
    /\ run' = <<>>
    /\ UNCHANGED <<turn, thread, modelInput, invokeErr>>
    /\ UNCHANGED <<avars, rvars, cvars>>

Init ==
    /\ memory = [t \in ThreadIds |-> <<>>]
    /\ pc = "idle"
    /\ step = 0
    /\ turn = 0
    /\ thread = "1"
    /\ run = <<>>
    /\ modelInput = [t \in ThreadIds |-> <<>>]
    /\ invokeErr = FALSE
    /\ status = "none"
    /\ answer = <<>>
    /\ a_tool = "none"
    /\ a_query = <<>>
    /\ a_max = 10
    /\ a_pc = "idle"
    /\ a_reqs = <<>>
    /\ a_out = "none"
    /\ a_ids = <<>>
    /\ a_replies = <<>>
    /\ r_tool = "none"
    /\ r_paper = <<>>
    /\ r_res = [k |-> "none"]
    /\ c_content = <<>>
    /\ c_res = [k |-> "none", content |-> <<>>]

Next ==
    \/ \E t \in MainThreadIds, text \in UserTexts : Invoke(t, text)
    \/ CallModel
    \/ \E i \in 1..MaxCalls : ToolReject(i)
    \/ \E i \in 1..MaxCalls : ToolStart(i)
    \/ \E i \in 1..MaxCalls : ToolFinish(i)
    \/ ToolsJoin

Spec == Init /\ [][Next]_vars

\* the compiled graph called on any thread_id, with a model that answers
\* with one text or requests one tool at a time
SessionResponses(t, s) ==
    { AIMessage(<<"[{title: t}]">>, <<>>) } \cup
    { AIMessage(<<>>, <<[name |-> n, id |-> CallId(t, s, 1)]>>) : n \in RequestNames }

SessionCallModel == CallModelFrom(SessionResponses(turn, step))

NextSessions ==
    \/ \E t \in ThreadIds, text \in UserTexts : Invoke(t, text)
    \/ SessionCallModel
    \/ \E i \in 1..MaxCalls : ToolReject(i)
    \/ \E i \in 1..MaxCalls : ToolStart(i)
    \/ \E i \in 1..MaxCalls : ToolFinish(i)
    \/ ToolsJoin

SpecSessions == Init /\ [][NextSessions]_vars

\* ============================================ paper-source adapters (utils)
\* A query is a sequence of characters.
Queries == { <<>>, <<" ">>, <<"a">>, <<" ", "a", " ">>, <<"a", "&", "b">>,
             <<"a", "=", "b">>, <<"a", "#">> }
MaxResultsArgs == {0, 10, 200}
HttpAdapters == {"search_arxiv", "search_pubmed", "search_semantic_scholar"}

\* what the provider does with one GET request: "ok" is a well-formed
\* payload with records, "empty" one without, "malformed" a payload that
\* parses but has not the expected structure, "garbage" one that does not
\* parse
ProviderReplies == {"ok", "empty", "malformed", "rate_limited", "http_error",
                    "garbage", "refused", "silent"}
\* the idlist of an esearch reply
IdLists == { <<"11">>, <<"11", "22">> }
\* what `from scholarly import scholarly` and scholarly.search_pubs do
LibraryReplies == {"not_installed", "ok", "empty", "failure"}

\* the timeout argument of each requests.get call
NoTimeout == <<>>          \* timeout=None: wait without limit
PubmedTimeout == 30
SemanticScholarTimeout == 30

RECURSIVE lstrip(_)
lstrip(q) == IF Len(q) > 0 /\ Head(q) = " " THEN lstrip(Tail(q)) ELSE q
RECURSIVE rstrip(_)
rstrip(q) == IF Len(q) > 0 /\ q[Len(q)] = " " THEN rstrip(SubSeq(q, 1, Len(q) - 1)) ELSE q
strip(q) == rstrip(lstrip(q))

\* ---- URLs.  A query string is a sequence of tokens: the separators
\* "&", "=", "#", the characters of the query, escapes such as "%26", and
\* the literal keys and values of the adapter, one token each.

\* urllib.parse.quote_plus, on the characters of Queries
quote_plus_char(c) ==
    CASE c = " " -> "+"
      [] c = "&" -> "%26"
      [] c = "=" -> "%3D"
      [] c = "#" -> "%23"
      [] OTHER -> c
quote_plus(q) == [i \in 1..Len(q) |-> quote_plus_char(q[i])]

\* requests re-quotes the URL it is given: characters that cannot appear in
\* a URL are escaped, reserved characters are left as they are
requote_char(c) == IF c = " " THEN "%20" ELSE c
requote_uri(u) == [i \in 1..Len(u) |-> requote_char(u[i])]

\* search_arxiv: the f-string search_query
ArxivQuery(query, max_results) ==
    <<"search_query", "=", "all:">> \o query \o
    <<"&", "start", "=", "0", "&", "max_results", "=", ToString(max_results),
      "&", "sortBy", "=", "lastUpdatedDate", "&", "sortOrder", "=", "descending">>

\* search_pubmed: encoded_query = quote_plus(query), then the f-string
PubmedSearchQuery(query, max_results) ==
    <<"db", "=", "pubmed", "&", "term", "=">> \o quote_plus(query) \o
    <<"&", "retmax", "=", ToString(max_results), "&", "sort", "=", "date",
      "&", "retmode", "=", "json">>

RECURSIVE join(_, _)
join(sep, items) ==
    IF Len(items) = 0 THEN <<>>
    ELSE IF Len(items) = 1 THEN <<items[1]>>
    ELSE <<items[1], sep>> \o join(sep, Tail(items))

\* variant: only the first identifier is fetched
PubmedFetchQuery_first(ids) ==
    <<"db", "=", "pubmed", "&", "id", "=", ids[1], "&", "retmode", "=", "xml">>

\* search_pubmed: ids_str = ",".join(ids), then the f-string fetch_url
PubmedFetchQuery(ids) ==
    <<"db", "=", "pubmed", "&", "id", "=">> \o join(",", ids) \o
    <<"&", "retmode", "=", "xml">>

\* search_semantic_scholar: max_results = min(max(1, max_results), 100)
ClampMaxResults(max_results) ==
    LET lo == IF max_results < 1 THEN 1 ELSE max_results
    IN IF lo > 100 THEN 100 ELSE lo

\* search_semantic_scholar: the params dict, encoded by requests
SemanticScholarQuery(query, max_results) ==
    <<"query", "=">> \o quote_plus(strip(query)) \o
    <<"&", "limit", "=", ToString(ClampMaxResults(max_results)),
      "&", "fields", "=", "title,authors,abstract,year,citationCount,url,venue,externalIds,publicationDate,journal">>

Request(endpoint, qs, timeout) ==
    [endpoint |-> endpoint, qs |-> qs, timeout |-> timeout]

\* search_arxiv: requests.get(base_url + search_query), no timeout argument
ArxivRequest(query, max_results) ==
    Request("export.arxiv.org/api/query", requote_uri(ArxivQuery(query, max_results)),
            NoTimeout)
\* search_pubmed: esearch, then efetch, both with timeout=30
PubmedSearchRequest(query, max_results) ==
    Request("esearch.fcgi", requote_uri(PubmedSearchQuery(query, max_results)),
            <<PubmedTimeout>>)
PubmedFetchRequest(ids) ==
    Request("efetch.fcgi", requote_uri(PubmedFetchQuery(ids)), <<PubmedTimeout>>)
\* search_semantic_scholar: params query=query.strip(), timeout=30
SemanticScholarRequest(query, max_results) ==
    Request("api.semanticscholar.org/graph/v1/paper/search",
            SemanticScholarQuery(query, max_results), <<SemanticScholarTimeout>>)

FirstRequest(tool, query, max_results) ==
    CASE tool = "search_arxiv" -> ArxivRequest(query, max_results)
      [] tool = "search_pubmed" -> PubmedSearchRequest(query, max_results)
      [] tool = "search_semantic_scholar" -> SemanticScholarRequest(query, max_results)

\* variant: only the empty string is refused
IsBlankQuery_emptyOnly(query) == query = <<>>

\* search_semantic_scholar: `not query or not query.strip()`
IsBlankQuery(query) == query = <<>> \/ strip(query) = <<>>

\* ---- exceptions and the except clauses of each adapter
Bases(exc) ==
    CASE exc = "Timeout" -> {"Timeout", "RequestException", "Exception"}
      [] exc = "ConnectionError" -> {"ConnectionError", "RequestException", "Exception"}
      [] exc = "HTTPError" -> {"HTTPError", "RequestException", "Exception"}
      [] exc = "JSONDecodeError" -> {"JSONDecodeError", "RequestException", "Exception"}
      [] exc = "ImportError" -> {"ImportError", "Exception"}
      [] OTHER -> {exc, "Exception"}

\* variant: the adapters catch only the exceptions they name
ExceptClauses_named(tool) ==
    CASE tool = "search_arxiv" -> {"RequestException"}
      [] tool = "search_pubmed" -> {"RequestException", "JSONDecodeError"}
      [] tool = "search_semantic_scholar" -> {"Timeout", "ConnectionError", "RequestException"}
      [] tool = "search_google_scholar" -> {"ImportError"}

\* the except clauses around each adapter's body; each returns a string
ExceptClauses(tool) ==
    CASE tool = "search_arxiv" -> {"Exception"}
      [] tool = "search_pubmed" -> {"RequestException", "JSONDecodeError", "Exception"}
      [] tool = "search_semantic_scholar" ->
            {"Timeout", "ConnectionError", "RequestException", "Exception"}
      [] tool = "search_google_scholar" -> {"ImportError", "Exception"}

Caught(tool, exc) == Bases(exc) \cap ExceptClauses(tool) # {}

Return(out) == [k |-> "return", v |-> out]
Raise(exc) == [k |-> "raise", v |-> exc]
Fetch == [k |-> "fetch", v |-> "efetch"]

\* the adapter is called and runs up to its first requests.get (for
\* search_google_scholar: into the scholarly library);
\* search_semantic_scholar returns before it for a blank query
AdapterCall(tool, query, max_results) ==
    /\ a_pc = "idle"
    /\ a_tool' = tool
    /\ a_query' = query
    /\ a_max' = max_results
    /\ IF tool = "search_semantic_scholar" /\ IsBlankQuery(query)
       THEN /\ a_pc' = "returned"
            /\ a_out' = "error"
            /\ a_reqs' = a_reqs
       ELSE IF tool = "search_google_scholar"
       THEN /\ a_pc' = "lib"
            /\ a_out' = "none"
            /\ a_reqs' = a_reqs
       ELSE /\ a_pc' = "wait"
            /\ a_out' = "none"
            /\ a_reqs' = Append(a_reqs, FirstRequest(tool, query, max_results))
    /\ UNCHANGED <<a_ids, a_replies>>
    /\ UNCHANGED <<lvars, rvars, cvars>>

\* requests.get: a refused connection raises ConnectionError; a provider
\* that sends nothing makes the call raise Timeout when a timeout was
\* given, and never return when none was
GetOutcome(req, reply) ==
    IF reply = "silent"
    THEN IF req.timeout = NoTimeout THEN "never" ELSE "timeout"
    ELSE reply

\* the rest of search_arxiv after requests.get: feedparser.parse takes any
\* payload (no status check); an entry without the expected attributes
\* raises AttributeError
ArxivAfterGet(outcome) ==
    CASE outcome = "refused" -> Raise("ConnectionError")
      [] outcome = "timeout" -> Raise("Timeout")
      [] outcome = "malformed" -> Raise("AttributeError")
      [] outcome = "ok" -> Return("results")
      [] OTHER -> Return("no_results")

\* search_pubmed after the esearch request: raise_for_status, .json(), the
\* structure checks, the empty idlist
PubmedAfterSearch(outcome) ==
    CASE outcome = "refused" -> Raise("ConnectionError")
      [] outcome = "timeout" -> Raise("Timeout")
      [] outcome \in {"http_error", "rate_limited"} -> Raise("HTTPError")
      [] outcome = "garbage" -> Raise("JSONDecodeError")
      [] outcome = "malformed" -> Raise("TypeError")
      [] outcome = "empty" -> Return("no_results")
      [] OTHER -> Fetch

\* search_pubmed after the efetch request: raise_for_status, ET.fromstring
\* (ParseError is caught in place), the article loop
PubmedAfterFetch(outcome) ==
    CASE outcome = "refused" -> Raise("ConnectionError")
      [] outcome = "timeout" -> Raise("Timeout")
      [] outcome \in {"http_error", "rate_limited"} -> Raise("HTTPError")
      [] outcome = "garbage" -> Return("error")
      [] outcome = "malformed" -> Raise("AttributeError")
      [] outcome = "empty" -> Return("no_results")
      [] OTHER -> Return("results")

\* search_semantic_scholar after requests.get: the status checks, .json()
\* (JSONDecodeError is caught in place), the data check, the paper loop
SemanticScholarAfterGet(outcome) ==
    CASE outcome = "refused" -> Raise("ConnectionError")
      [] outcome = "timeout" -> Raise("Timeout")
      [] outcome \in {"http_error", "rate_limited", "garbage"} -> Return("error")
      [] outcome = "malformed" -> Raise("TypeError")
      [] outcome = "empty" -> Return("no_results")
      [] OTHER -> Return("results")

\* search_google_scholar: the import, search_pubs and the loop over it
GoogleScholarBody(outcome) ==
    CASE outcome = "not_installed" -> Raise("ImportError")
      [] outcome = "failure" -> Raise("MaxTriesExceededException")
      [] outcome = "empty" -> Return("no_results")
      [] OTHER -> Return("results")

AfterGet(tool, nreq, outcome) ==
    CASE tool = "search_arxiv" -> ArxivAfterGet(outcome)
      [] tool = "search_pubmed" /\ nreq = 1 -> PubmedAfterSearch(outcome)
      [] tool = "search_pubmed" /\ nreq = 2 -> PubmedAfterFetch(outcome)
      [] tool = "search_semantic_scholar" -> SemanticScholarAfterGet(outcome)

\* the end of an adapter's body: a returned string, or an exception that
\* an except clause turns into a returned string or that leaves the adapter
Finish(res) ==
    IF res.k = "return"
    THEN /\ a_pc' = "returned"
         /\ a_out' = res.v
    ELSE IF Caught(a_tool, res.v)
    THEN /\ a_pc' = "returned"
         /\ a_out' = "error"
    ELSE /\ a_pc' = "raised"
         /\ a_out' = a_out

\* the pending requests.get ends (or never does) and the adapter runs on
\* to its next requests.get or to its end
ProviderReply(reply, ids) ==
    /\ a_pc = "wait"
    /\ LET outcome == GetOutcome(Last(a_reqs), reply)
           res == AfterGet(a_tool, Len(a_reqs), outcome)
       IN IF outcome = "never"
          THEN /\ a_pc' = "blocked"
               /\ UNCHANGED <<a_reqs, a_out, a_ids, a_replies>>
          ELSE /\ a_replies' = Append(a_replies, reply)
               /\ IF res.k = "fetch"
                  THEN /\ a_pc' = "wait"
                       /\ a_ids' = ids
                       /\ a_reqs' = Append(a_reqs, PubmedFetchRequest(ids))
                       /\ UNCHANGED a_out
                  ELSE /\ Finish(res)
                       /\ UNCHANGED <<a_reqs, a_ids>>
    /\ UNCHANGED <<a_tool, a_query, a_max>>
    /\ UNCHANGED <<lvars, rvars, cvars>>

LibraryReply(reply) ==
    /\ a_pc = "lib"
    /\ a_replies' = Append(a_replies, reply)
    /\ Finish(GoogleScholarBody(reply))
    /\ UNCHANGED <<a_tool, a_query, a_max, a_reqs, a_ids>>
    /\ UNCHANGED <<lvars, rvars, cvars>>

NextAdapter ==
    \/ \E tool \in tools, query \in Queries, max_results \in MaxResultsArgs :
          AdapterCall(tool, query, max_results)
    \/ \E reply \in ProviderReplies :
          \E ids \in (IF reply = "ok" THEN IdLists ELSE {<<>>}) : ProviderReply(reply, ids)
    \/ \E reply \in LibraryReplies : LibraryReply(reply)

SpecAdapter == Init /\ [][NextAdapter]_vars

\* C10: every HTTP request an adapter issues carries a bounded timeout, and
\* no adapter call is left waiting forever by a provider that sends nothing.
C10_BoundedTimeouts ==
    /\ \A i \in 1..Len(a_reqs) : a_reqs[i].timeout # NoTimeout
    /\ a_pc # "blocked"

\* ===================================================== claims C1 .. C9
History == memory[thread]

\* C1: every step leaves the stored history of every session as a prefix of
\* the new one (nothing stored is removed, replaced or mutated), the start
\* of a turn adds the user message and every Deciding step adds one message,
\* so that a turn makes the history at least 2 messages longer.
C1_AppendOnly ==
    [][ /\ \A t \in ThreadIds : IsPrefix(memory[t], memory'[t])
        /\ (pc = "idle" /\ pc' = "agent")
              => Len(memory'[thread']) >= Len(memory[thread']) + 1
        /\ pc = "agent" => Len(memory'[thread]) >= Len(memory[thread]) + 1
      ]_vars

\* C2: every tool-result message of a stored history is preceded, with only
\* sibling tool-results in between, by a model-output message that emitted
\* its call identifier.
C2_ToolResultsLinked ==
    \A t \in ThreadIds : \A i \in 1..Len(memory[t]) :
        memory[t][i].type = "tool" =>
            \E j \in 1..(i - 1) :
                /\ memory[t][j].type = "ai"
                /\ \A k \in (j + 1)..(i - 1) : memory[t][k].type = "tool"
                /\ \E c \in 1..Len(memory[t][j].tool_calls) :
                       memory[t][j].tool_calls[c].id = memory[t][i].tool_call_id

\* C3: the list given to the model at a Deciding step is the system
\* instruction followed by the whole session history so far: everything the
\* model was shown at the previous Deciding step of the session is shown
\* again, in order, followed by the model's previous output and what was
\* produced since (at least one tool result or user message).
C3_ModelSeesFullHistory ==
    [][ pc = "agent" =>
          /\ modelInput'[thread][1] = system_msg
          /\ Len(modelInput'[thread]) = Len(memory[thread]) + 1
          /\ modelInput[thread] # <<>> =>
                /\ IsPrefix(modelInput[thread], modelInput'[thread])
                /\ Len(modelInput'[thread]) >= Len(modelInput[thread]) + 2
      ]_vars

\* C4: a turn never ends by raising a fault out of agent.invoke.
C4_TurnNeverRaises == status # "raised"

\* C5: when the model invocation of a Deciding step raises, the non-empty
\* fallback message without tool calls is appended, and the turn ends at
\* once, returning the fallback text.
C5_FallbackEndsTurn ==
    [][ (pc = "agent" /\ invokeErr') =>
          /\ memory'[thread] = Append(memory[thread], AIMessage(FallbackText, <<>>))
          /\ Len(FallbackText) > 0
          /\ pc' = "idle"
          /\ status' = "returned"
          /\ answer' = FallbackText
      ]_vars

\* C6: at a Deciding step the model is given no tool-result message: each
\* tool-result of the history is replaced in place by a human message whose
\* content is the instruction followed by the tool-result's content, every
\* other message is passed as it is, and the stored history keeps the
\* original messages.
C6_NoRawToolResults ==
    [][ pc = "agent" =>
          LET h == memory[thread]
              m == modelInput'[thread]
          IN /\ Len(m) = Len(h) + 1
             /\ m[1] = system_msg
             /\ \A k \in 1..Len(m) : m[k].type # "tool"
             /\ \A i \in 1..Len(h) :
                   IF h[i].type = "tool"
                   THEN /\ m[i + 1].type = "human"
                        /\ m[i + 1].content = WrapperText \o h[i].content
                        /\ m[i + 1].tool_calls = <<>>
                   ELSE m[i + 1] = h[i]
             /\ IsPrefix(h, memory'[thread])
      ]_vars
C6_Witness ==
    /\ pc = "tools"
    /\ \E i \in 1..(Len(History) - 1) :
          /\ History[i].type = "tool"
          /\ modelInput[thread][i + 1] = HumanMessage(WrapperText \o History[i].content)

C8_OneAtATime ==
    \A i, j \in 1..Len(run) :
        (i < j /\ run[j].st # "pending") => run[i].st = "done"

\* C8 (amended): the Acting step ends only when every request is finished;
\* each request naming a registered tool was invoked (once), the others
\* never; the history then holds one tool-result per request, in emission
\* order, each carrying its request's identifier and outcome.
C8_ResultsInEmissionOrder ==
    [][ (pc = "tools" /\ pc' # "tools") =>
          /\ Len(memory'[thread]) = Len(PendingCalls)
          /\ \A i \in 1..Len(PendingCalls) :
                /\ run[i].st = "done"
                /\ run[i].ran <=> PendingCalls[i].name \in tools
                /\ memory'[thread][i] = ToolMessage(run[i].out, PendingCalls[i].id)
      ]_vars
C8_Witness ==
    /\ pc = "agent"
    /\ Len(History) = MaxCalls
    /\ \A i \in 1..Len(History) :
          History[i] = ToolMessage(ToolResultText("search_arxiv"), CallId(turn, step - 2, i))

\* C9: when the first Deciding step of a turn yields an output without
\* tool-call requests, the turn ends there: one Deciding step, no Acting
\* step, and that output's content is the returned answer.
C9_NoCallsEndsTurn ==
    [][ (pc = "agent" /\ step = 1 /\ Len(Last(memory'[thread]).tool_calls) = 0) =>
          /\ pc' = "idle"
          /\ step' = 1
          /\ run' = <<>>
          /\ status' = "returned"
          /\ answer' = Last(memory'[thread]).content
      ]_vars
C9_Witness ==
    /\ status = "returned"
    /\ step = 1
    /\ ~invokeErr
    /\ Len(History) = 2
    /\ History[1].type = "human"
    /\ History[2] = AIMessage(answer, <<>>)

\* ===================================== the record built from one paper
\* A field of a provider's record is absent, null (JSON null; in XML an
\* element without text), or has a value: a text (sequence of characters)
\* or a list of names.
Absent == [st |-> "absent", v |-> <<>>]
Null == [st |-> "null", v |-> <<>>]
Val(v) == [st |-> "value", v |-> v]
Truthy(f) == f.st = "value" /\ f.v # <<>>

AbstractLimit == 500           \* len(abstract) > 500
PubmedKeep == 500              \* abstract_text[:500]
SemanticScholarKeep == 497     \* abstract[:497]
MaxAuthors == 5                \* authors[:5]

Text(n) == [i \in 1..n |-> ToString(i)]
Papers ==
    [ title    : {Absent, Null, Val(<<>>), Val(Text(2))},
      abstract : {Absent, Null, Val(<<>>), Val(Text(3)), Val(Text(AbstractLimit)),
                  Val(Text(AbstractLimit + 1))},
      authors  : {Absent, Val(<<>>), Val(<<"A. Author">>)},
      venue    : {Absent, Val(<<>>), Val(<<"NeurIPS">>)},
      journal  : {Absent, Null, Val(<<>>), Val(<<"Nature">>)} ]

PaperRecord(title, authors, abstract, venue) ==
    [k |-> "record", title |-> title, authors |-> authors,
     abstract |-> abstract, venue |-> venue]
\* an exception in the loop body that the adapter's outer except turns
\* into the error string of the whole call
CallError == [k |-> "call_error"]
\* search_semantic_scholar: `except Exception as paper_error: continue`
Dropped == [k |-> "dropped"]

Take(v, n) == SubSeq(v, 1, IF Len(v) < n THEN Len(v) ELSE n)

\* search_arxiv, the loop body: entry.title and entry.summary are read as
\* attributes (a missing one raises AttributeError), authors under hasattr;
\* the record has no venue key
ArxivRecord(p) ==
    IF p.title.st = "absent" \/ p.abstract.st = "absent"
    THEN CallError
    ELSE PaperRecord(Val(p.title.v),
                     IF p.authors.st = "absent" THEN <<>> ELSE p.authors.v,
                     Val(p.abstract.v),
                     Val(<<>>))

\* search_pubmed, the loop body
PubmedAbstract(f) ==
    LET abstract_text == IF f.st = "absent" THEN <<>> ELSE strip(f.v)
        or_default == IF abstract_text = <<>> THEN <<"No abstract available">>
                      ELSE abstract_text
    IN IF Len(or_default) > AbstractLimit
       THEN Take(or_default, PubmedKeep) \o <<"...">>
       ELSE or_default

PubmedRecord(p) ==
    IF p.journal.st = "null"
    THEN CallError                      \* journal_elem.text is None: .strip() raises
    ELSE PaperRecord(IF p.title.st = "absent" THEN Val(<<"No title">>)
                     ELSE Val(strip(p.title.v)),
                     Take(p.authors.v, MaxAuthors),
                     Val(PubmedAbstract(p.abstract)),
                     Val(p.journal.v))

\* search_semantic_scholar, the loop body
SemanticScholarAbstract(f) ==
    LET abstract == IF f.st = "absent" THEN Val(<<>>) ELSE f
        cut == IF Truthy(abstract) /\ Len(abstract.v) > AbstractLimit
               THEN Val(Take(abstract.v, SemanticScholarKeep) \o <<"...">>)
               ELSE abstract
    IN IF Truthy(cut) THEN cut ELSE Val(<<"No abstract available">>)

\* venue = paper.get('venue', '') or paper.get('journal', {}).get('name', '')
\*             if paper.get('journal') else ''
\* which Python reads as (A or B) if C else ''
SemanticScholarVenue(venue, journal) ==
    IF journal.st = "value"
    THEN (IF Truthy(venue) THEN venue.v ELSE journal.v)
    ELSE <<>>

SemanticScholarRecord(p) ==
    PaperRecord(IF p.title.st = "absent" THEN Val(<<"No title available">>) ELSE p.title,
                IF Truthy(p.authors) THEN p.authors.v ELSE <<>>,
                SemanticScholarAbstract(p.abstract),
                Val(SemanticScholarVenue(p.venue, p.journal)))

\* search_google_scholar, the loop body: dict.get with defaults
GoogleScholarRecord(p) ==
    PaperRecord(IF p.title.st = "absent" THEN Val(<<"No title">>) ELSE p.title,
                p.authors.v,
                IF p.abstract.st = "absent" THEN Val(<<"No abstract available">>)
                ELSE p.abstract,
                IF p.venue.st = "absent" THEN Val(<<>>) ELSE p.venue)

BuildRecord(tool, p) ==
    CASE tool = "search_arxiv" -> ArxivRecord(p)
      [] tool = "search_pubmed" -> PubmedRecord(p)
      [] tool = "search_semantic_scholar" -> SemanticScholarRecord(p)
      [] tool = "search_google_scholar" -> GoogleScholarRecord(p)

\* one pass of an adapter's loop over the provider's records
ProcessPaper(tool, p) ==
    /\ r_tool = "none"
    /\ r_tool' = tool
    /\ r_paper' = p
    /\ r_res' = BuildRecord(tool, p)
    /\ UNCHANGED <<lvars, avars, cvars>>

NextRecords == \E tool \in tools, p \in Papers : ProcessPaper(tool, p)

SpecRecords == Init /\ [][NextRecords]_vars

\* ============================== main(): the handling of a returned answer
\* the backquote character
Backquote == "BQ"
Fence == <<Backquote, Backquote, Backquote>>
JsonFence == Fence \o <<"j", "s", "o", "n">>
MaxBody == 3
Bodies == UNION { [1..n -> {"{", "}", "[", "]", "x"}] : n \in 0..MaxBody }
Contents ==
    { open \o body \o close :
        open \in {<<>>, Fence, JsonFence}, body \in Bodies, close \in {<<>>, Fence} }

startswith(c, prefix) == Len(c) >= Len(prefix) /\ SubSeq(c, 1, Len(prefix)) = prefix
endswith(c, suffix) ==
    Len(c) >= Len(suffix) /\ SubSeq(c, Len(c) - Len(suffix) + 1, Len(c)) = suffix
\* content[a:-b]
Slice(c, a, b) == IF a + 1 > Len(c) - b THEN <<>> ELSE SubSeq(c, a + 1, Len(c) - b)

\* the elif condition of main(): `and` binds tighter than `or`
NotJsonFormat(c) ==
    \/ (~startswith(c, <<"{">>) /\ ~endswith(c, <<"}">>))
    \/ (~startswith(c, <<"[">>) /\ ~endswith(c, <<"]">>))

\* main(), from `content = result['messages'][-1].content` to the prompt
HandleContent(c) ==
    LET stripped == IF startswith(c, JsonFence) THEN Slice(c, 7, 3)
                    ELSE IF startswith(c, Fence) THEN Slice(c, 3, 3)
                    ELSE c
        rejected == ~startswith(c, Fence) /\ NotJsonFormat(c)
    IN IF rejected THEN [k |-> "rejected", content |-> c]
       ELSE IF stripped = <<>> THEN [k |-> "no_content", content |-> stripped]
       ELSE [k |-> "prompt", content |-> strip(stripped)]

ShowAnswer(c) ==
    /\ c_res.k = "none"
    /\ c_content' = c
    /\ c_res' = HandleContent(c)
    /\ UNCHANGED <<lvars, avars, rvars>>

NextCli == \E c \in Contents : ShowAnswer(c)

SpecCli == Init /\ [][NextCli]_vars

\* =================================================== claims C11 .. C20
\* ---- what the provider's server makes of a query string: the fragment
\* is not sent, parameters are separated by "&", a key ends at the first
\* "=", escapes are decoded
Has(u, c) == \E i \in 1..Len(u) : u[i] = c
FirstIndex(u, c) == CHOOSE k \in 1..Len(u) : u[k] = c /\ \A j \in 1..(k - 1) : u[j] # c
BeforeFragment(u) == IF Has(u, "#") THEN SubSeq(u, 1, FirstIndex(u, "#") - 1) ELSE u
RECURSIVE SplitOn(_, _)
SplitOn(u, sep) ==
    IF Has(u, sep)
    THEN <<SubSeq(u, 1, FirstIndex(u, sep) - 1)>> \o
         SplitOn(SubSeq(u, FirstIndex(u, sep) + 1, Len(u)), sep)
    ELSE <<u>>
UnquoteToken(t) ==
    CASE t \in {"+", "%20"} -> " "
      [] t = "%26" -> "&"
      [] t = "%3D" -> "="
      [] t = "%23" -> "#"
      [] OTHER -> t
Unquote(u) == [i \in 1..Len(u) |-> UnquoteToken(u[i])]
ParsePair(part) ==
    IF Has(part, "=")
    THEN << Unquote(SubSeq(part, 1, FirstIndex(part, "=") - 1)),
            Unquote(SubSeq(part, FirstIndex(part, "=") + 1, Len(part))) >>
    ELSE << Unquote(part), <<>> >>
ParseQs(u) ==
    LET parts == SplitOn(BeforeFragment(u), "&")
    IN [i \in 1..Len(parts) |-> ParsePair(parts[i])]
Param(pairs, key) ==
    IF \E i \in 1..Len(pairs) : pairs[i][1] = <<key>>
    THEN pairs[CHOOSE i \in 1..Len(pairs) : pairs[i][1] = <<key>>][2]
    ELSE <<>>

\* the parameters each adapter means to send with its n-th request
IntendedParams(tool, n, query, max_results, ids) ==
    CASE tool = "search_arxiv" ->
            << << <<"search_query">>, <<"all:">> \o query >>,
               << <<"start">>, <<"0">> >>,
               << <<"max_results">>, <<ToString(max_results)>> >>,
               << <<"sortBy">>, <<"lastUpdatedDate">> >>,
               << <<"sortOrder">>, <<"descending">> >> >>
      [] tool = "search_pubmed" /\ n = 1 ->
            << << <<"db">>, <<"pubmed">> >>,
               << <<"term">>, query >>,
               << <<"retmax">>, <<ToString(max_results)>> >>,
               << <<"sort">>, <<"date">> >>,
               << <<"retmode">>, <<"json">> >> >>
      [] tool = "search_pubmed" /\ n = 2 ->
            << << <<"db">>, <<"pubmed">> >>,
               << <<"id">>, join(",", ids) >>,
               << <<"retmode">>, <<"xml">> >> >>
      [] tool = "search_semantic_scholar" ->
            << << <<"query">>, strip(query) >>,
               << <<"limit">>, <<ToString(ClampMaxResults(max_results))>> >>,
               << <<"fields">>, <<"title,authors,abstract,year,citationCount,url,venue,externalIds,publicationDate,journal">> >> >>

AdapterOutputs == {"results", "no_results", "error"}

\* C11: no exception leaves an adapter: whatever the provider or the
\* library does, the call never ends by raising, and when it ends it has
\* returned a string.
C11_NoExceptionEscapes ==
    /\ a_pc # "raised"
    /\ a_pc = "returned" => a_out \in AdapterOutputs
C11_Witness ==
    /\ a_tool = "search_pubmed"
    /\ a_pc = "returned"
    /\ a_replies = <<"ok", "malformed">>
    /\ a_out = "error"

\* C13: search_semantic_scholar called with an empty or all-blank query
\* returns an error string without issuing a request, and every request it
\* issues carries a non-empty search term.
AllBlank(q) == \A i \in 1..Len(q) : q[i] = " "
C13_BlankQueryRefused ==
    a_tool = "search_semantic_scholar" =>
        /\ AllBlank(a_query) =>
              (a_reqs = <<>> /\ a_pc = "returned" /\ a_out = "error")
        /\ \A i \in 1..Len(a_reqs) : Param(ParseQs(a_reqs[i].qs), "query") # <<>>
C13_Witness ==
    /\ a_tool = "search_semantic_scholar"
    /\ a_query = <<" ">>
    /\ a_pc = "returned"
    /\ a_reqs = <<>>

\* C14: the query string of every request, as the provider parses it, has
\* exactly the parameters the adapter set, the whole query text being the
\* value of the search-term parameter.
C14_QueryEncoded ==
    \A i \in 1..Len(a_reqs) :
        ParseQs(a_reqs[i].qs) = IntendedParams(a_tool, i, a_query, a_max, a_ids)

\* C16: search_pubmed issues the identifier search first and the record
\* fetch at most once, only after the search succeeded with a non-empty
\* identifier list, and the fetch asks for exactly the identifiers of that
\* list; when the search fails or finds nothing no fetch is issued and a
\* string is returned.
C16_TwoStepProtocol ==
    a_tool = "search_pubmed" =>
        /\ Len(a_reqs) \in {1, 2}
        /\ a_reqs[1].endpoint = "esearch.fcgi"
        /\ Len(a_reqs) = 2 =>
              /\ a_replies[1] = "ok"
              /\ a_ids # <<>>
              /\ a_reqs[2].endpoint = "efetch.fcgi"
              /\ SplitOn(Param(ParseQs(a_reqs[2].qs), "id"), ",")
                    = [i \in 1..Len(a_ids) |-> <<a_ids[i]>>]
        /\ (Len(a_replies) >= 1 /\ a_replies[1] # "ok") =>
              /\ Len(a_reqs) = 1
              /\ a_pc = "returned"
              /\ a_out \in AdapterOutputs
C16_Witness ==
    /\ a_tool = "search_pubmed"
    /\ a_ids = <<"11", "22">>
    /\ Len(a_reqs) = 2
    /\ a_pc = "returned"
    /\ a_out = "results"
C16_WitnessNoFetch ==
    /\ a_tool = "search_pubmed"
    /\ a_replies = <<"empty">>
    /\ Len(a_reqs) = 1
    /\ a_pc = "returned"

\* C12: a provider record whose title, abstract or author field is absent
\* or empty still yields a record: it is not dropped, the call does not
\* turn into an error, and the field holds a placeholder text, the empty
\* string or the empty list.
Missing(f) == f.st = "absent" \/ (f.st = "value" /\ f.v = <<>>)
PlaceholderTexts ==
    { Val(<<>>), Val(<<"No title">>), Val(<<"No title available">>),
      Val(<<"No abstract available">>) }
C12_MissingFieldsGetPlaceholders ==
    (r_tool # "none" /\ r_paper.journal.st # "null") =>
        /\ (Missing(r_paper.title) \/ Missing(r_paper.abstract) \/ Missing(r_paper.authors))
              => r_res.k = "record"
        /\ (r_res.k = "record" /\ Missing(r_paper.title))
              => r_res.title \in PlaceholderTexts
        /\ (r_res.k = "record" /\ Missing(r_paper.abstract))
              => r_res.abstract \in PlaceholderTexts
        /\ (r_res.k = "record" /\ Missing(r_paper.authors))
              => r_res.authors = <<>>

\* C15: in every record built, an abstract longer than 500 characters is
\* returned as a prefix of at most 500 characters followed by "...", and a
\* shorter one is returned as it is.
C15_AbstractBounded ==
    (r_res.k = "record" /\ Truthy(r_paper.abstract)) =>
        LET t == r_paper.abstract.v
            out == r_res.abstract.v
        IN IF Len(t) > AbstractLimit
           THEN \E n \in 0..AbstractLimit : out = SubSeq(t, 1, n) \o <<"...">>
           ELSE out = t

\* C19: the venue of a record built by search_semantic_scholar is the
\* provider's venue when that is non-empty, else the journal's name when
\* there is a journal with a name, else the empty string.
C19_VenueOrJournal ==
    (r_tool = "search_semantic_scholar" /\ r_res.k = "record") =>
        r_res.venue.v =
            IF Truthy(r_paper.venue) THEN r_paper.venue.v
            ELSE IF Truthy(r_paper.journal) THEN r_paper.journal.v
            ELSE <<>>

\* C17: a step of a turn on one session leaves the stored history of every
\* other session as it was, and a session that was never used has an empty
\* history, its first turn starting from the user's message alone.
NeverUsed(t) == modelInput[t] = <<>> /\ ~(thread = t /\ turn > 0)
C17_SessionsIndependent ==
    [][ /\ \A t \in ThreadIds : t # thread' => memory'[t] = memory[t]
        /\ \A t \in ThreadIds : NeverUsed(t) => memory[t] = <<>>
        /\ (pc = "idle" /\ pc' = "agent" /\ NeverUsed(thread'))
              => Len(memory'[thread']) = 1
      ]_vars
C17_Witness ==
    /\ thread = "2"
    /\ pc = "agent"
    /\ step = 3
    /\ Len(memory["1"]) >= 2
    /\ memory["2"] # <<>>
    /\ memory["2"][1].type = "tool"

\* C18: a request naming a tool that was declared to the model is executed
\* by that tool and is never answered with the unknown-tool error.
C18_DeclaredToolsResolvable ==
    pc = "tools" =>
        \A i \in 1..Len(run) :
            (PendingCalls[i].name \in bound_tools /\ run[i].st = "done") =>
                /\ run[i].ran
                /\ run[i].out # InvalidToolText(PendingCalls[i].name)

\* C20: an answer that is not fenced and is delimited as a JSON object or
\* array is not rejected as "not in JSON format"; only an answer that is
\* neither fenced nor so delimited is rejected; a fenced answer reaches the
\* prompt without its markers.
JsonDelimited(c) ==
    \/ (startswith(c, <<"{">>) /\ endswith(c, <<"}">>))
    \/ (startswith(c, <<"[">>) /\ endswith(c, <<"]">>))
Unfenced(c) ==
    IF startswith(c, JsonFence) /\ endswith(c, Fence) /\ Len(c) >= 10
    THEN SubSeq(c, 8, Len(c) - 3)
    ELSE SubSeq(c, 4, Len(c) - 3)
C20_JsonReachesSavePrompt ==
    c_res.k # "none" =>
        /\ c_res.k = "rejected" <=> (~startswith(c_content, Fence) /\ ~JsonDelimited(c_content))
        /\ (startswith(c_content, Fence) /\ endswith(c_content, Fence)
              /\ Len(c_content) >= 6 /\ c_res.k = "prompt")
              => c_res.content = Unfenced(c_content)
====
